---- MODULE Spec2Model ----
(***************************************************************************)
(* A model of function_graph.py: the contract registry built by            *)
(* parse_contracts, the C3 linearization of every contract (c3, c3_merge), *)
(* the selection of the entry call in __main__ and the worklist traversal  *)
(* walk_call that resolves every raw call of every reached function.       *)
(***************************************************************************)
EXTENDS Integers, Sequences, FiniteSets, TLC

VARIABLES
    declared,         \* the baseContracts of each ContractDefinition, as written
    base_contracts,   \* Contract.base_contracts, per contract of the registry
    state_user_vars,  \* Contract.state_user_vars, per contract
    usingfors,        \* Contract.usingfors, per contract
    functions,        \* Contract.functions: Function -> list of raw Calls
    linearization,    \* Contract.linearization, per contract
    ignore_list,      \* ignore_list of __main__
    pc,               \* position of the program
    lin_i,            \* position of the loop of parse_contracts (line 88)
    entry,            \* the entry Call handed to walk_call
    calls,            \* the worklist of walk_call
    ci,               \* index in calls of the callee being expanded
    ki,               \* index of the raw call of the body being resolved
    nodes,            \* nodes of walk_call
    edges,            \* edges of walk_call
    last,             \* the last resolution step (history)
    first_result      \* the result of the first call of walk_call, once it is called again

vars == <<declared, base_contracts, state_user_vars, usingfors, functions, linearization,
          ignore_list, pc, lin_i, entry, calls, ci, ki, nodes, edges, last, first_result>>

----------------------------------------------------------------------------
(* Helpers on sequences *)

Range(s) == {s[i] : i \in 1..Len(s)}

Min(S) == CHOOSE x \in S : \A y \in S : x <= y

\* Python's `x in lst`
InList(x, l) == \E k \in 1..Len(l) : l[k] = x

\* index of the first occurrence of x in l (0 when absent)
IndexOf(x, l) == IF InList(x, l) THEN Min({k \in 1..Len(l) : l[k] = x}) ELSE 0

RECURSIVE SeqsUpTo(_, _)
SeqsUpTo(S, n) ==
    IF n = 0 THEN {<<>>}
    ELSE LET shorter == SeqsUpTo(S, n - 1)
         IN shorter \cup {Append(s, x) : s \in {t \in shorter : Len(t) = n - 1}, x \in S}

----------------------------------------------------------------------------
(* Linearization: c3 and c3_merge *)

Ok(v) == [err |-> "none", val |-> v]
Raise(e) == [err |-> e, val |-> <<>>]

\* line 102: candidate not in tail, for the tail of one list
NotInTail(candidate, l) == \A k \in 2..Len(l) : l[k] # candidate

\* a merge that takes the first head whatever the tails hold
IsCandidate_AnyHead(candidate, lst) == TRUE

\* line 102: all(candidate not in tail for _, *tail in lst)
IsCandidate(candidate, lst) == \A i \in 1..Len(lst) : NotInTail(candidate, lst[i])

\* a merge that removes the candidate from the first list that heads with it only
RemoveCandidate_FirstOnly(candidate, lst) ==
    LET first == Min({i \in 1..Len(lst) : Head(lst[i]) = candidate})
    IN [i \in 1..Len(lst) |-> IF i = first THEN Tail(lst[i]) ELSE lst[i]]

\* line 103: the lists with the candidate removed from the heads
RemoveCandidate(candidate, lst) ==
    [i \in 1..Len(lst) |-> IF Head(lst[i]) = candidate THEN Tail(lst[i]) ELSE lst[i]]

NonEmpty(l) == l # <<>>

\* a merge that ends, instead of raising, when no head qualifies
NoCandidate_Stop(lst) == Ok(<<>>)

\* lines 105-106: no head qualifies
NoCandidate(lst) == Raise("TypeError")

RECURSIVE c3_merge(_)
c3_merge(lst) ==
    IF \A i \in 1..Len(lst) : lst[i] = <<>> THEN Ok(<<>>)
    ELSE LET good == {i \in 1..Len(lst) : IsCandidate(Head(lst[i]), lst)}
         IN IF good = {} THEN NoCandidate(lst)
            ELSE LET candidate == Head(lst[Min(good)])
                     rec == RemoveCandidate(candidate, lst)
                     rest == c3_merge(SelectSeq(rec, NonEmpty))
                 IN IF rest.err # "none" THEN rest
                    ELSE Ok(<<candidate>> \o rest.val)

\* c3 with the depth of Python's call stack left: a cyclic inheritance
\* recurses until the interpreter raises RecursionError.  c3_all is the list
\* comprehension of line 96, which stops at the first base whose c3 raises.
RECURSIVE c3_rec(_, _, _), c3_all(_, _, _)
c3_all(bases, bc, depth) ==
    IF bases = <<>> THEN Ok(<<>>)
    ELSE LET first == c3_rec(Head(bases), bc, depth)
         IN IF first.err # "none" THEN first
            ELSE LET others == c3_all(Tail(bases), bc, depth)
                 IN IF others.err # "none" THEN others
                    ELSE Ok(<<first.val>> \o others.val)

c3_rec(contract, bc, depth) ==
    IF contract \notin DOMAIN bc \/ bc[contract] = <<>> THEN Ok(<<contract>>)
    ELSE IF depth = 0 THEN Raise("RecursionError")
    ELSE LET bases == bc[contract]
             lins == c3_all(bases, bc, depth - 1)
         IN IF lins.err # "none" THEN lins
            ELSE LET merged == c3_merge(lins.val \o <<bases>>)
                 IN IF merged.err # "none" THEN merged
                    ELSE Ok(<<contract>> \o merged.val)

\* an acyclic inheritance over n contracts nests c3 at most n deep
c3(contract, bc) == c3_rec(contract, bc, Cardinality(DOMAIN bc) + 1)

----------------------------------------------------------------------------
(* Function, Call, Edge *)

None == "None"

Function(name, params, fun_type) == [name |-> name, params |-> params, type |-> fun_type]

\* Function.__eq__
FunctionEq(a, b) == a.name = b.name /\ a.params = b.params /\ a.type = b.type

\* Call.__init__: context or contract
Call(contract, function, context) ==
    [contract |-> contract, function |-> function,
     context |-> IF context = None THEN contract ELSE context]

\* Call.__eq__: the context takes no part
CallEq(a, b) == a.contract = b.contract /\ FunctionEq(a.function, b.function)

Edge(caller, callee) == [caller |-> caller, callee |-> callee]

\* Edge.__eq__
EdgeEq(a, b) == CallEq(a.caller, b.caller) /\ CallEq(a.callee, b.callee)

\* set.add under Call.__eq__: an equal member is kept, the new one is not stored
AddCall(S, c) == IF \E x \in S : CallEq(x, c) THEN S ELSE S \cup {c}

\* set.add under Edge.__eq__
AddEdge(S, e) == IF \E x \in S : EdgeEq(x, e) THEN S ELSE S \cup {e}

\* `call in calls` for a list of Calls (lines 163 and 207)
CallIn(c, l) == \E k \in 1..Len(l) : CallEq(l[k], c)

----------------------------------------------------------------------------
(* The registry `contracts` *)

\* the keys of the dict contracts
Contracts == DOMAIN base_contracts

\* as Reversed, but the bases are kept in their declared order
Reversed_Declared(l) == l

\* line 84: the declared bases, reversed
Reversed(l) == [i \in 1..Len(l) |-> l[Len(l) + 1 - i]]

\* lines 84-85: base_contracts of every parsed contract
StoredBases(decl) == [c \in DOMAIN decl |-> Reversed(decl[c])]

\* the order in which the contracts were parsed (the dict's iteration order)
ParseOrder == <<"A", "B", "C", "D", "L">>

InRegistry(name) == name \in Contracts

ContractOrder == SelectSeq(ParseOrder, InRegistry)

\* nodes[contract] and edges[contract] of walk_call
NodesOf(contract) == {n \in nodes : n.contract = contract}
EdgesOf(contract) == {e \in edges : e.caller.contract = contract}

\* line 166: call.function in contract.functions
search_function(contract, function) == function \in DOMAIN functions[contract]

\* a super search that does not exclude the callee's own contract
search_super_WithSelf(contract, function, self) == function \in DOMAIN functions[contract]

\* lines 173-175: the same, strictly in a base of the callee's contract
search_super(contract, function, self) ==
    contract # self /\ search_function(contract, function)

\* line 191: call.contract in contract.state_user_vars
search_var(contract, name) == name \in DOMAIN state_user_vars[contract]

\* line 200: contract_to in contract.usingfors
search_using(contract, typename) == typename \in DOMAIN usingfors[contract]

\* the contracts of the registry that satisfy a predicate of walk_call
Defining(function) == {c \in Contracts : search_function(c, function)}
DefiningAbove(function, self) == {c \in Contracts : search_super(c, function, self)}
Declaring(name) == {c \in Contracts : search_var(c, name)}
Attached(typename) == {c \in Contracts : search_using(c, typename)}

\* find_base, lines 212-216: the first name of the linearization that is a
\* contract of the registry and satisfies the predicate (is in holds)
find_base(contract_name, holds) ==
    LET lin == linearization[contract_name]
        hits == {k \in 1..Len(lin) : lin[k] \in Contracts /\ lin[k] \in holds}
    IN IF hits = {} THEN None ELSE lin[Min(hits)]

----------------------------------------------------------------------------
(* Resolution of one raw call of the body of callee: lines 166-205 *)

NoFunction == Function(None, 0, None)
NoCall == [contract |-> None, function |-> NoFunction, context |-> None]

\* as Dropped, but a call that resolves to nothing is an error
Dropped_Raise == [kind |-> "KeyError", to |-> NoCall]

\* `continue` (lines 181 and 195), an uncaught KeyError, or call_to (line 205)
Dropped == [kind |-> "drop", to |-> NoCall]
Raised == [kind |-> "KeyError", to |-> NoCall]
Found(call_to) == [kind |-> "edge", to |-> call_to]

\* line 203: the identity of the library function, one parameter more
lib_function(call) == Function(call.function.name, call.function.params + 1, "Function")

\* line 205: Call(contract_to, call.function, context_to)
Target(contract_to, call, context_to) == Call(contract_to, call.function, context_to)

\* an internal call searched from the contract that defines the body
ResolveThis_FromDefiner(callee, call) ==
    LET contract_to == find_base(callee.contract, Defining(call.function))
    IN IF contract_to = None THEN Dropped
       ELSE Found(Target(contract_to, call, callee.context))

\* lines 178-181: call.contract == "this"
ResolveThis(callee, call) ==
    LET contract_to == find_base(callee.context, Defining(call.function))
    IN IF contract_to = None THEN Dropped
       ELSE Found(Target(contract_to, call, callee.context))

\* lines 171-176, 180-181: call.contract == "super"
ResolveSuper(callee, call) ==
    LET contract_to == find_base(callee.contract,
                                     DefiningAbove(call.function, callee.contract))
    IN IF contract_to = None THEN Dropped
       ELSE Found(Target(contract_to, call, callee.context))

\* lines 198-204: the declared type is no contract of the registry;
\* contracts[base_usingfor] with base_usingfor None raises KeyError
ResolveUsingFor(base_name, typename, call) ==
    LET base_usingfor == find_base(base_name, Attached(typename))
    IN IF base_usingfor = None THEN Raised
       ELSE Found(Target(usingfors[base_usingfor][typename], call, base_name))

\* as ResolveExternal, but the target of a contract type keeps the context of
\* the call being expanded
ResolveExternal_KeepContext(callee, call) ==
    LET base_name == find_base(callee.contract, Declaring(call.contract))
    IN IF base_name = None THEN Dropped
       ELSE LET contract_to == state_user_vars[base_name][call.contract]
            IN IF contract_to \in Contracts
               THEN Found(Target(contract_to, call, callee.context))
               ELSE ResolveUsingFor(base_name, contract_to, call)

\* lines 189-204: the receiver is the name of a state variable
ResolveExternal(callee, call) ==
    LET base_name == find_base(callee.contract, Declaring(call.contract))
    IN IF base_name = None THEN Dropped
       ELSE LET contract_to == state_user_vars[base_name][call.contract]
            IN IF contract_to \in Contracts
               THEN Found(Target(contract_to, call, base_name))
               ELSE ResolveUsingFor(base_name, contract_to, call)

\* as ResolveNamed, but the named base becomes the context of the target
ResolveNamed_BaseContext(callee, call) ==
    IF InList(call.contract, linearization[callee.contract])
    THEN IF call.contract \notin Contracts THEN Raised
         ELSE LET base_name == find_base(call.contract, Defining(call.function))
              IN IF base_name = None THEN ResolveExternal(callee, call)
                 ELSE Found(Target(base_name, call, call.contract))
    ELSE ResolveExternal(callee, call)

\* lines 183-188: a receiver named in the linearization of the callee's contract;
\* find_base(call.contract, ...) reads contracts[call.contract]
ResolveNamed(callee, call) ==
    IF InList(call.contract, linearization[callee.contract])
    THEN IF call.contract \notin Contracts THEN Raised
         ELSE LET base_name == find_base(call.contract, Defining(call.function))
              IN IF base_name = None THEN ResolveExternal(callee, call)
                 ELSE Found(Target(base_name, call, callee.context))
    ELSE ResolveExternal(callee, call)

\* lines 169-205
ResolveCall(callee, call) ==
    IF call.contract = "this" THEN ResolveThis(callee, call)
    ELSE IF call.contract = "super" THEN ResolveSuper(callee, call)
    ELSE ResolveNamed(callee, call)

\* a worklist that takes calls of the same function for the same call
Enqueue_SameFunction(call_to, l) ==
    IF \E k \in 1..Len(l) : FunctionEq(l[k].function, call_to.function) THEN l
    ELSE Append(l, call_to)

\* lines 207-208
\* as Enqueue, but a target that is on the worklist takes the place of its entry
Enqueue_LatestContext(call_to, l) ==
    IF CallIn(call_to, l)
    THEN [k \in 1..Len(l) |-> IF CallEq(l[k], call_to) THEN call_to ELSE l[k]]
    ELSE Append(l, call_to)

\* as Enqueue, but a call is on the worklist only if its context is the same too
Enqueue_WithContext(call_to, l) ==
    IF \E k \in 1..Len(l) : l[k] = call_to THEN l ELSE Append(l, call_to)

Enqueue(call_to, l) == IF CallIn(call_to, l) THEN l ELSE Append(l, call_to)

\* an ignore test that also compares the context
IsIgnored_WithContext(callee) ==
    \E k \in 1..Len(ignore_list) :
        CallEq(ignore_list[k], callee) /\ ignore_list[k].context = callee.context

\* line 163: callee in ignore_list
IsIgnored(callee) == CallIn(callee, ignore_list)

\* line 165: contracts[callee.contract].functions[callee.function] can be read
HasBody(callee) ==
    /\ callee.contract \in Contracts
    /\ callee.function \in DOMAIN functions[callee.contract]

----------------------------------------------------------------------------
(* parse_contracts, lines 88-90: the linearization of each contract in turn *)

registry == <<declared, base_contracts, state_user_vars, usingfors, functions>>
walk == <<entry, calls, ci, ki, nodes, edges, last>>

LinearizeOk ==
    /\ pc = "parse"
    /\ lin_i <= Len(ContractOrder)
    /\ LET name == ContractOrder[lin_i]
           lin == c3(name, base_contracts)
       IN /\ lin.err = "none"
          /\ linearization' = [linearization EXCEPT ![name] = lin.val]
    /\ lin_i' = lin_i + 1
    /\ pc' = IF lin_i = Len(ContractOrder) THEN "main" ELSE "parse"
    /\ UNCHANGED <<registry, ignore_list, walk, first_result>>

\* c3 raises: parse_contracts does not return
LinearizeRaise ==
    /\ pc = "parse"
    /\ lin_i <= Len(ContractOrder)
    /\ LET lin == c3(ContractOrder[lin_i], base_contracts)
       IN /\ lin.err # "none"
          /\ pc' = lin.err
    /\ UNCHANGED <<registry, linearization, ignore_list, lin_i, walk, first_result>>

----------------------------------------------------------------------------
(* __main__, lines 291-310: the entry call *)

\* the insertion order of the dict Contract.functions
DeclOrder == <<Function("f", 0, "Function"), Function("g", 0, "Function"),
               Function("g", 1, "Function"), Function("g", 0, "Modifier")>>

FunctionsOf(contract) ==
    SelectSeq(DeclOrder, LAMBDA f : f \in DOMAIN functions[contract])

\* lines 297-298: the functions of the bases, in linearization order, of the
\* requested name and of type Function
RECURSIVE Flatten(_)
Flatten(ss) == IF ss = <<>> THEN <<>> ELSE Head(ss) \o Flatten(Tail(ss))

Matching(contract_name, name) ==
    LET bases == SelectSeq(linearization[contract_name], InRegistry)
        perBase == [i \in 1..Len(bases) |->
                      LET fs == SelectSeq(FunctionsOf(bases[i]),
                                  LAMBDA f : f.name = name /\ f.type = "Function")
                      IN [k \in 1..Len(fs) |-> [fun |-> fs[k], base |-> bases[i]]]]
    IN Flatten(perBase)

\* lines 301-302: args.count is <<>> when not given
WithCount(fs, count) ==
    IF count = <<>> THEN fs ELSE SelectSeq(fs, LAMBDA f : f.fun.params = count[1])

\* line 310: Call(contract_name, functions[0].fun)
EntryCall(contract_name, fs) == Call(contract_name, fs[1].fun, None)

\* the command line: the requested contract, function name and parameter count
EntryContracts == {"A", "B", "C", "L", "X"}
EntryNames == {"f", "g"}
EntryCounts == {<<>>, <<0>>, <<1>>}

\* lines 291-310 up to the first statement of walk_call (lines 157-160)
MainWalk ==
    /\ pc = "main"
    /\ \E contract_name \in EntryContracts, name \in EntryNames, count \in EntryCounts :
          /\ contract_name \in Contracts
          /\ LET fs == WithCount(Matching(contract_name, name), count)
             IN /\ fs # <<>>
                /\ entry' = EntryCall(contract_name, fs)
    /\ calls' = <<entry'>>
    /\ nodes' = {entry'}
    /\ edges' = {}
    /\ ci' = 1
    /\ ki' = 0
    /\ pc' = "walk"
    /\ UNCHANGED <<registry, linearization, ignore_list, lin_i, last, first_result>>

\* lines 292-293, 299-300, 303-304: sys.exit
MainExit ==
    /\ pc = "main"
    /\ \E contract_name \in EntryContracts, name \in EntryNames, count \in EntryCounts :
          \/ contract_name \notin Contracts
          \/ /\ contract_name \in Contracts
             /\ WithCount(Matching(contract_name, name), count) = <<>>
    /\ pc' = "exit"
    /\ UNCHANGED <<registry, linearization, ignore_list, lin_i, walk, first_result>>

----------------------------------------------------------------------------
(* walk_call, lines 161-209 *)

CurCallee == calls[ci]
CurBody == functions[CurCallee.contract][CurCallee.function]
CurCall == CurBody[ki]

AtLoopHead == pc = "walk" /\ ki = 0 /\ ci <= Len(calls)
InBody == pc = "walk" /\ ki > 0

\* lines 162-164: an ignored callee is a node and is not expanded
VisitIgnored ==
    /\ AtLoopHead
    /\ IsIgnored(CurCallee)
    /\ nodes' = AddCall(nodes, CurCallee)
    /\ ci' = ci + 1
    /\ UNCHANGED <<registry, linearization, ignore_list, pc, lin_i, entry, calls, ki,
                   edges, last, first_result>>

\* lines 162-165: the body of the callee is read
VisitExpand ==
    /\ AtLoopHead
    /\ ~IsIgnored(CurCallee)
    /\ HasBody(CurCallee)
    /\ nodes' = AddCall(nodes, CurCallee)
    /\ IF CurBody = <<>> THEN ci' = ci + 1 /\ ki' = 0 ELSE ci' = ci /\ ki' = 1
    /\ UNCHANGED <<registry, linearization, ignore_list, pc, lin_i, entry, calls,
                   edges, last, first_result>>

\* line 165: the registry holds no such contract or function: KeyError
VisitKeyError ==
    /\ AtLoopHead
    /\ ~IsIgnored(CurCallee)
    /\ ~HasBody(CurCallee)
    /\ nodes' = AddCall(nodes, CurCallee)
    /\ pc' = "KeyError"
    /\ UNCHANGED <<registry, linearization, ignore_list, lin_i, entry, calls, ci, ki,
                   edges, last, first_result>>

\* as Record, but the call list of a function is used up by the loop over it
Record_Consuming(res) ==
    /\ last' = [callee |-> CurCallee, call |-> CurCall, kind |-> res.kind, to |-> res.to]
    /\ IF res.kind = "KeyError"
       THEN pc' = "KeyError" /\ UNCHANGED <<calls, edges, ci, ki, functions>>
       ELSE /\ pc' = pc
            /\ edges' = IF res.kind = "edge" THEN AddEdge(edges, Edge(CurCallee, res.to))
                        ELSE edges
            /\ calls' = IF res.kind = "edge" THEN Enqueue(res.to, calls) ELSE calls
            /\ IF ki = Len(CurBody)
               THEN /\ ci' = ci + 1 /\ ki' = 0
                    /\ functions' = [functions EXCEPT
                                       ![CurCallee.contract][CurCallee.function] = <<>>]
               ELSE ci' = ci /\ ki' = ki + 1 /\ UNCHANGED functions
    /\ UNCHANGED <<declared, base_contracts, state_user_vars, usingfors, linearization,
                   ignore_list, lin_i, entry, nodes, first_result>>

\* lines 205-208 after the resolution res of the raw call, or its `continue`
Record(res) ==
    /\ last' = [callee |-> CurCallee, call |-> CurCall, kind |-> res.kind, to |-> res.to]
    /\ IF res.kind = "KeyError"
       THEN pc' = "KeyError" /\ UNCHANGED <<calls, edges, ci, ki>>
       ELSE /\ pc' = pc
            /\ edges' = IF res.kind = "edge" THEN AddEdge(edges, Edge(CurCallee, res.to))
                        ELSE edges
            /\ calls' = IF res.kind = "edge" THEN Enqueue(res.to, calls) ELSE calls
            /\ IF ki = Len(CurBody) THEN ci' = ci + 1 /\ ki' = 0
               ELSE ci' = ci /\ ki' = ki + 1
    /\ UNCHANGED <<registry, linearization, ignore_list, lin_i, entry, nodes, first_result>>

InternalCall ==
    /\ InBody
    /\ CurCall.contract = "this"
    /\ Record(ResolveCall(CurCallee, CurCall))

SuperCall ==
    /\ InBody
    /\ CurCall.contract = "super"
    /\ Record(ResolveCall(CurCallee, CurCall))

NamedCall ==
    /\ InBody
    /\ CurCall.contract \notin {"this", "super"}
    /\ Record(ResolveCall(CurCallee, CurCall))

\* line 209
Return ==
    /\ pc = "walk"
    /\ ki = 0
    /\ ci > Len(calls)
    /\ pc' = "returned"
    /\ UNCHANGED <<registry, linearization, ignore_list, lin_i, walk, first_result>>

----------------------------------------------------------------------------
(* The registries and command lines the traversal is checked on *)

\* the most raw calls, over all bodies, of a registry
MaxCalls == 2

\* the most base names, over all contracts, of a registry of LinSpec
MaxBases == 4

f0 == Function("f", 0, "Function")
g0 == Function("g", 0, "Function")
g1 == Function("g", 1, "Function")
gm == Function("g", 0, "Modifier")

\* a raw call as parse_node and get_calls_from_dict build it (lines 125, 144, 148)
Raw(receiver, function) == Call(receiver, function, None)

Slot(contract, function) == [contract |-> contract, function |-> function]

NoBases == [c \in {"A", "B", "C", "L"} |-> <<>>]
NoMaps == [c \in {"A", "B", "C", "L"} |-> <<>>]

\* contract B is A
Single == [NoBases EXCEPT !["B"] = <<"A">>]

\* a source text: the declared bases, the state variables and the using-for
\* declarations of each contract, and what its functions may be
World(decl, sv, uf, slots, menu, ignores) ==
    [decl |-> decl, vars |-> sv, using |-> uf, slots |-> slots, menu |-> menu,
     ignores |-> ignores]

\* C is B, B is A: every contract may define f, and A and C may define g
Chain ==
    World([NoBases EXCEPT !["B"] = <<"A">>, !["C"] = <<"B">>], NoMaps, NoMaps,
          <<Slot("A", f0), Slot("B", f0), Slot("C", f0), Slot("A", g0), Slot("C", g0)>>,
          {Raw("super", f0), Raw("this", f0), Raw("this", g0)},
          {Call("B", f0, None)})

\* C is A, B
Multiple ==
    World([NoBases EXCEPT !["C"] = <<"A", "B">>], NoMaps, NoMaps,
          <<Slot("A", f0), Slot("B", f0), Slot("C", f0), Slot("C", g0)>>,
          {Raw("super", f0), Raw("A", f0), Raw("this", g0)},
          {Call("A", f0, None)})

\* C is B, B is A: a body of B may name its base A, and run for C
Direct ==
    World([NoBases EXCEPT !["B"] = <<"A">>, !["C"] = <<"B">>], NoMaps, NoMaps,
          <<Slot("A", f0), Slot("B", f0), Slot("C", g0)>>,
          {Raw("A", f0), Raw("super", f0)},
          {})

\* no inheritance: one contract, with an overload of g and a modifier g
Flat ==
    World(NoBases, NoMaps, NoMaps,
          <<Slot("A", f0), Slot("A", g0), Slot("A", g1), Slot("A", gm)>>,
          {Raw("this", g0), Raw("this", g1), Raw("this", gm)},
          {Call("A", g0, None)})

\* B is A and C is B, A: no order of A and B satisfies both
Unlinearizable ==
    World([NoBases EXCEPT !["B"] = <<"A">>, !["C"] = <<"B", "A">>], NoMaps, NoMaps,
          <<Slot("C", f0)>>, {}, {})

\* B is U, and no file declares U
Undeclared ==
    World([NoBases EXCEPT !["B"] = <<"U">>], NoMaps, NoMaps,
          <<Slot("B", f0), Slot("B", g0)>>,
          {Raw("U", f0), Raw("super", f0), Raw("this", g0)},
          {})

\* B is A, and A holds the state variable v of the contract type A
ExternalContract ==
    World(Single, [NoMaps EXCEPT !["A"] = ("v" :> "A")], NoMaps,
          <<Slot("A", f0), Slot("B", f0), Slot("A", g0), Slot("B", g0)>>,
          {Raw("v", f0), Raw("v", g0), Raw("super", f0)},
          {Call("A", f0, None)})

\* B is A, and A holds the state variable v of the contract type B
ExternalDerived ==
    World(Single, [NoMaps EXCEPT !["A"] = ("v" :> "B")], NoMaps,
          <<Slot("A", f0), Slot("B", f0)>>,
          {Raw("v", f0), Raw("super", f0)},
          {})

\* B is A; owner holds the state variable v of the type T, which is no
\* contract, and attach (if any) declares `using L for T`
ExternalLibrary(owner, attach) ==
    World(Single, [NoMaps EXCEPT ![owner] = ("v" :> "T")],
          IF attach = None THEN NoMaps ELSE [NoMaps EXCEPT ![attach] = ("T" :> "L")],
          <<Slot("A", f0), Slot("B", f0), Slot("L", g0), Slot("L", g1)>>,
          {Raw("v", g0), Raw("super", f0), Raw("this", f0)},
          {Call("L", g0, None)})

Worlds ==
    {Chain, Multiple, Direct, Flat, Unlinearizable, Undeclared, ExternalContract,
     ExternalDerived}
    \cup {ExternalLibrary(o, a) : o \in {"A", "B"}, a \in {None, "A", "B"}}

\* the function definitions of a registry: some of the slots, each with a body
\* over the menu, at most m raw calls in all
RECURSIVE Tables(_, _, _)
Tables(slots, menu, m) ==
    IF slots = <<>> THEN {{}}
    ELSE Tables(Tail(slots), menu, m)
         \cup UNION {{t \cup {[contract |-> Head(slots).contract,
                               function |-> Head(slots).function, body |-> b]} :
                         t \in Tables(Tail(slots), menu, m - Len(b))} :
                     b \in SeqsUpTo(menu, m)}

\* Contract.functions of every contract, for a set of definitions
FunctionsFrom(t) ==
    [c \in {"A", "B", "C", "L"} |->
        [f \in {d.function : d \in {x \in t : x.contract = c}} |->
            (CHOOSE d \in t : d.contract = c /\ d.function = f).body]]

\* --ignore: no call, or one of the world's
IgnoreLists(w) == {<<>>} \cup {<<c>> : c \in w.ignores}

NoStep == [callee |-> NoCall, call |-> NoCall, kind |-> "none", to |-> NoCall]

\* walk_call has not been called a second time
NoResult == [done |-> FALSE, nodes |-> {}, edges |-> {}]

InitWalk ==
    /\ lin_i = 1
    /\ pc = "parse"
    /\ entry = NoCall
    /\ calls = <<>>
    /\ ci = 0
    /\ ki = 0
    /\ nodes = {}
    /\ edges = {}
    /\ last = NoStep
    /\ first_result = NoResult

Init ==
    /\ \E w \in Worlds :
          /\ declared = w.decl
          /\ base_contracts = StoredBases(w.decl)
          /\ state_user_vars = w.vars
          /\ usingfors = w.using
          /\ functions \in {FunctionsFrom(t) : t \in Tables(w.slots, w.menu, MaxCalls)}
          /\ ignore_list \in IgnoreLists(w)
    /\ linearization = [c \in DOMAIN base_contracts |-> <<>>]
    /\ InitWalk

Next ==
    \/ LinearizeOk
    \/ LinearizeRaise
    \/ MainWalk
    \/ MainExit
    \/ VisitIgnored
    \/ VisitExpand
    \/ VisitKeyError
    \/ InternalCall
    \/ SuperCall
    \/ NamedCall
    \/ Return

Spec == Init /\ [][Next]_vars

----------------------------------------------------------------------------
(* walk_call called again with the arguments of its first call *)

\* the first call has returned (nodes, edges); the second call starts at
\* lines 157-160 with the same entry and ignore_list over the same registry
WalkAgain ==
    /\ pc = "returned"
    /\ ~first_result.done
    /\ first_result' = [done |-> TRUE, nodes |-> nodes, edges |-> edges]
    /\ calls' = <<entry>>
    /\ nodes' = {entry}
    /\ edges' = {}
    /\ ci' = 1
    /\ ki' = 0
    /\ pc' = "walk"
    /\ UNCHANGED <<registry, linearization, ignore_list, lin_i, entry, last>>

TwiceNext == Next \/ WalkAgain

TwiceSpec == Init /\ [][TwiceNext]_vars

----------------------------------------------------------------------------
(* The inheritance declarations the linearization is checked on *)

LinContracts == <<"A", "B", "C", "D">>

\* a base may name a contract no parsed file declares
BaseNames == {"A", "B", "C", "D", "U"}

\* the lists of at most n declared base names, for each n up to MaxBases
BaseLists == [n \in 0..MaxBases |-> SeqsUpTo(BaseNames, n)]

\* every declaration of the four contracts with at most MaxBases base names
\* in all
LinInit ==
    /\ \E a \in BaseLists[MaxBases] :
         \E b \in BaseLists[MaxBases - Len(a)] :
           \E c \in BaseLists[MaxBases - Len(a) - Len(b)] :
             \E d \in BaseLists[MaxBases - Len(a) - Len(b) - Len(c)] :
               declared = [n \in Range(LinContracts) |->
                             CASE n = "A" -> a [] n = "B" -> b
                               [] n = "C" -> c [] OTHER -> d]
    /\ base_contracts = StoredBases(declared)
    /\ state_user_vars = [c \in Range(LinContracts) |-> <<>>]
    /\ usingfors = [c \in Range(LinContracts) |-> <<>>]
    /\ functions = [c \in Range(LinContracts) |-> <<>>]
    /\ ignore_list = <<>>
    /\ linearization = [c \in Range(LinContracts) |-> <<>>]
    /\ InitWalk

LinNext == LinearizeOk \/ LinearizeRaise

LinSpec == LinInit /\ [][LinNext]_vars

----------------------------------------------------------------------------
(* Properties of the linearization *)

\* parse_contracts returned: every contract has its linearization
Constructed == pc \notin {"parse", "TypeError", "RecursionError"}

\* the names reachable from S along base_contracts
RECURSIVE BaseClosure(_)
BaseClosure(S) ==
    LET more == S \cup UNION {Range(base_contracts[c]) : c \in S \cap Contracts}
    IN IF more = S THEN S ELSE BaseClosure(more)

TransitiveBases(c) == BaseClosure(Range(base_contracts[c]))

NoDuplicates(l) == \A i, j \in 1..Len(l) : i # j => l[i] # l[j]

\* C1: once parse_contracts has returned, the linearization of every contract
\* of the registry starts with the contract, holds exactly the contract and
\* its transitive bases, and holds no name twice.
C1_LinearizationIsPermutation ==
    Constructed =>
        \A c \in Contracts :
            LET lin == linearization[c]
            IN /\ lin # <<>>
               /\ lin[1] = c
               /\ Range(lin) = {c} \cup TransitiveBases(c)
               /\ NoDuplicates(lin)

\* a contract with two direct bases that share a base, and one without bases
C1_Witness ==
    /\ Constructed
    /\ \E c, d \in Contracts :
          /\ Len(base_contracts[c]) = 2
          /\ Len(linearization[c]) = 4
          /\ Cardinality(TransitiveBases(c)) = 3
          /\ linearization[d] = <<d>>

\* the merge of lst reaches a step where a list is left and no head qualifies
RECURSIVE MergeStuck(_)
MergeStuck(lst) ==
    IF \A i \in 1..Len(lst) : lst[i] = <<>> THEN FALSE
    ELSE LET good == {i \in 1..Len(lst) : \A j \in 1..Len(lst) :
                                             ~InList(Head(lst[i]), Tail(lst[j]))}
         IN IF good = {} THEN TRUE
            ELSE LET candidate == Head(lst[Min(good)])
                     rec == [j \in 1..Len(lst) |->
                               IF Head(lst[j]) = candidate THEN Tail(lst[j]) ELSE lst[j]]
                 IN MergeStuck(SelectSeq(rec, NonEmpty))

\* the bases of c linearize, and the merge of c itself gets stuck
Contradictory(c) ==
    /\ base_contracts[c] # <<>>
    /\ LET bases == base_contracts[c]
       IN /\ \A i \in 1..Len(bases) : c3(bases[i], base_contracts).err = "none"
          /\ MergeStuck([i \in 1..Len(bases) |-> c3(bases[i], base_contracts).val]
                        \o <<bases>>)

\* C2: when the base orders of a contract are contradictory, c3_merge raises,
\* parse_contracts never returns and the contract gets no linearization.
C2_ContradictoryOrderIsFatal ==
    \A c \in Contracts :
        Contradictory(c) => ~Constructed /\ linearization[c] = <<>>

\* the loop of parse_contracts has stopped at a contradictory contract
C2_Witness ==
    /\ pc = "TypeError"
    /\ Contradictory(ContractOrder[lin_i])
    /\ lin_i > 1

\* C3: in every computed linearization each listed contract comes before all
\* of its own direct bases; for a diamond, D is first and B and C precede A.
C3_ContractBeforeItsBases ==
    \A c \in Contracts :
        LET lin == linearization[c]
        IN \A x \in Range(lin) \cap Contracts :
              \A k \in 1..Len(base_contracts[x]) :
                 /\ InList(base_contracts[x][k], lin)
                 /\ IndexOf(x, lin) < IndexOf(base_contracts[x][k], lin)

\* the diamond: D with the bases B and C, each with the single base A
C3_Witness ==
    /\ base_contracts = [A |-> <<>>, B |-> <<"A">>, C |-> <<"A">>, D |-> <<"B", "C">>]
    /\ linearization["D"] = <<"D", "B", "C", "A">>

----------------------------------------------------------------------------
(* Properties of the resolution of one raw call *)

Defines(contract, function) ==
    contract \in Contracts /\ function \in DOMAIN functions[contract]

\* t is the first name of lin, outside the set skip, that defines function
FirstDefiner(t, lin, function, skip) ==
    /\ InList(t, lin)
    /\ t \notin skip
    /\ Defines(t, function)
    /\ \A k \in 1..(IndexOf(t, lin) - 1) :
          lin[k] \in skip \/ ~Defines(lin[k], function)

NoDefiner(lin, function, skip) ==
    \A k \in 1..Len(lin) : lin[k] \in skip \/ ~Defines(lin[k], function)

\* C4: a super call in a body of contract X resolves to the first contract of
\* X's linearization, X excluded, that defines the called function; it is
\* dropped only when no proper ancestor defines it.
C4_SuperResolvesToNextAncestor ==
    last.call.contract = "super" =>
        LET X == last.callee.contract
            lin == linearization[X]
        IN /\ last.kind \in {"edge", "drop"}
           /\ last.kind = "edge" =>
                 /\ last.to.contract # X
                 /\ last.to.function = last.call.function
                 /\ FirstDefiner(last.to.contract, lin, last.call.function, {X})
           /\ last.kind = "drop" => NoDefiner(lin, last.call.function, {X})

\* the chain C is B, B is A, all defining f: super.f in C.f resolved to B
C4_Witness ==
    /\ last.call = Raw("super", f0)
    /\ last.callee = Call("C", f0, None)
    /\ linearization["C"] = <<"C", "B", "A">>
    /\ \A c \in {"A", "B", "C"} : Defines(c, f0)
    /\ last.to.contract = "B"

\* C5: an internal call resolves to the first contract of the linearization
\* of the context of the call being expanded that defines the called
\* function, and the target keeps that context.
C5_InternalResolvesInContext ==
    last.call.contract = "this" =>
        LET lin == linearization[last.callee.context]
        IN /\ last.kind \in {"edge", "drop"}
           /\ last.kind = "edge" =>
                 /\ last.to.function = last.call.function
                 /\ last.to.context = last.callee.context
                 /\ FirstDefiner(last.to.contract, lin, last.call.function, {})
           /\ last.kind = "drop" => NoDefiner(lin, last.call.function, {})

\* a body inherited from a base, expanded in a derived context, calls a
\* function that both define: the derived definition is the target
C5_Witness ==
    /\ last.call.contract = "this"
    /\ last.callee.contract # last.callee.context
    /\ Defines(last.callee.contract, last.call.function)
    /\ last.kind = "edge"
    /\ last.to.contract = last.callee.context

----------------------------------------------------------------------------
(* Properties of the traversal *)

WalkStarted == pc \in {"walk", "returned", "KeyError"}

\* C6: the traversal reaches the exhausted worklist and returns: once started,
\* it stops only by returning.
C6_TraversalReturns ==
    (WalkStarted /\ ~(ENABLED Next)) => pc = "returned"

\* c equals a member of the ignore list: same contract, same function
InIgnoreSet(c) ==
    \E k \in 1..Len(ignore_list) :
        /\ ignore_list[k].contract = c.contract
        /\ ignore_list[k].function = c.function

\* the calls taken from the worklist so far
Visited == {calls[k] : k \in {j \in 1..Len(calls) : j < ci \/ (j = ci /\ ki > 0)}}

\* C7: a reached call that equals a member of the ignore set is a node of its
\* contract once it is taken from the worklist, and is the caller of no edge.
C7_IgnoredCallsAreTerminal ==
    WalkStarted =>
        /\ \A e \in edges : ~InIgnoreSet(e.caller)
        /\ \A c \in Visited :
              InIgnoreSet(c) => \E n \in NodesOf(c.contract) : CallEq(n, c)

\* the traversal returned, and an ignored call whose body holds a raw call
\* has an edge into it from another call
C7_Witness ==
    /\ pc = "returned"
    /\ \E e \in edges :
          /\ InIgnoreSet(e.callee)
          /\ ~CallEq(e.caller, e.callee)
          /\ e.callee \in nodes
          /\ functions[e.callee.contract][e.callee.function] # <<>>

\* the last step resolved an external call: the receiver is a state variable
\* of owner, the nearest declaring contract of the callee's linearization
ExternalStep(owner) ==
    /\ last.kind # "none"
    /\ last.call.contract \notin {"this", "super"}
    /\ ~InList(last.call.contract, linearization[last.callee.contract])
    /\ LET lin == linearization[last.callee.contract]
       IN /\ InList(owner, lin)
          /\ owner \in Contracts
          /\ last.call.contract \in DOMAIN state_user_vars[owner]
          /\ \A k \in 1..(IndexOf(owner, lin) - 1) :
                lin[k] \in Contracts => last.call.contract \notin DOMAIN state_user_vars[lin[k]]

\* the declared type of the receiver of the last step
ReceiverType(owner) == state_user_vars[owner][last.call.contract]

\* the contracts of owner's linearization that attach a library to typename
Attaching(owner, typename) ==
    {k \in 1..Len(linearization[owner]) :
        /\ linearization[owner][k] \in Contracts
        /\ typename \in DOMAIN usingfors[linearization[owner][k]]}

\* C8: a call through a state variable of a type that is no contract, with a
\* using-for attachment, targets the attached library and the function of
\* the same name with one parameter more.
C8_LibraryCallTakesOneMoreParameter ==
    \A owner \in Contracts :
        (/\ ExternalStep(owner)
         /\ ReceiverType(owner) \notin Contracts
         /\ Attaching(owner, ReceiverType(owner)) # {})
        => /\ last.kind = "edge"
           /\ last.to.contract =
                 usingfors[linearization[owner][Min(Attaching(owner, ReceiverType(owner)))]]
                          [ReceiverType(owner)]
           /\ last.to.function.name = last.call.function.name
           /\ last.to.function.params = last.call.function.params + 1

\* C9: a call through a state variable of a type that is no contract, without
\* any using-for attachment, is dropped: nothing is recorded and the traversal
\* goes on.
C9_UnattachedTypeIsDropped ==
    \A owner \in Contracts :
        (/\ ExternalStep(owner)
         /\ ReceiverType(owner) \notin Contracts
         /\ Attaching(owner, ReceiverType(owner)) = {})
        => last.kind = "drop" /\ pc = "walk"

\* the body of a node: the raw calls recorded for its function
BodyOf(n) == functions[n.contract][n.function]

\* C10: when the traversal returns, the nodes are the entry and the callees of
\* the edges, and the edges are the resolved targets of the raw calls of the
\* bodies of the nodes that are not ignored.
C10_ResultIsReachabilityClosure ==
    pc = "returned" =>
        /\ \E n \in nodes : CallEq(n, entry)
        /\ \A n \in nodes : CallEq(n, entry) \/ \E e \in edges : CallEq(e.callee, n)
        /\ \A e \in edges : \E n \in nodes : CallEq(n, e.callee)
        /\ \A n \in nodes : \A m \in nodes : CallEq(n, m) => n = m
        /\ \A n \in nodes :
              ~InIgnoreSet(n) =>
                 \A k \in 1..Len(BodyOf(n)) :
                    LET res == ResolveCall(n, BodyOf(n)[k])
                    IN res.kind = "edge" =>
                          \E e \in edges : EdgeEq(e, Edge(n, res.to))
        /\ \A e \in edges :
              \E n \in nodes :
                 /\ CallEq(n, e.caller)
                 /\ ~InIgnoreSet(n)
                 /\ \E k \in 1..Len(BodyOf(n)) :
                       LET res == ResolveCall(n, BodyOf(n)[k])
                       IN res.kind = "edge" /\ CallEq(res.to, e.callee)

\* one contract without bases: f calls g of one parameter, which calls nothing
C10_Witness ==
    /\ pc = "returned"
    /\ entry = Call("A", f0, None)
    /\ functions["A"] = (f0 :> <<Raw("this", g1)>>) @@ (g1 :> <<>>)
    /\ nodes = {Call("A", f0, None), Call("A", g1, None)}
    /\ edges = {Edge(Call("A", f0, None), Call("A", g1, None))}

----------------------------------------------------------------------------
(* Properties of the worklist *)

\* C11: when walk_call has returned from a second call with the same entry
\* and ignore list over the same registry, its nodes and its edges are those
\* the first call returned.
C11_SecondWalkSameResult ==
    (pc = "returned" /\ first_result.done)
        => (nodes = first_result.nodes /\ edges = first_result.edges)

\* a second call has returned a graph of three nodes or more
C11_Witness ==
    /\ pc = "returned"
    /\ first_result.done
    /\ Cardinality(nodes) >= 3
    /\ Cardinality(edges) >= 2

\* the same (contract, function) pair, whatever the contexts
SameCall(a, b) == a.contract = b.contract /\ a.function = b.function

OnceEach(l) == \A i, j \in 1..Len(l) : SameCall(l[i], l[j]) => i = j

\* C12: in every step of walk_call the worklist keeps its entries and at most
\* gains one at its end, no two of its entries name the same (contract,
\* function) pair, and the loop goes on with the same or the next entry: a
\* pair is dequeued and expanded at most once.
C12_WorklistHoldsEachPairOnce ==
    [][pc = "walk" =>
          /\ OnceEach(calls')
          /\ Len(calls') \in {Len(calls), Len(calls) + 1}
          /\ \A k \in 1..Len(calls) : calls'[k] = calls[k]
          /\ ci' \in {ci, ci + 1}]_vars

\* a returned traversal with as many edges as worklist entries, the entry
\* included: some resolved target was on the worklist already and was not
\* appended again
C12_Witness ==
    /\ pc = "returned"
    /\ Len(calls) >= 2
    /\ Cardinality(edges) >= Len(calls)

----------------------------------------------------------------------------
(* Properties of calls through a base name, of the entry and of state variables *)

\* the last step resolved a call written Base.f in a body of a contract that
\* has Base in its linearization, and a contract of Base's linearization
\* defines f
DirectBaseStep(Base) ==
    /\ last.kind # "none"
    /\ last.call.contract = Base
    /\ InList(Base, linearization[last.callee.contract])
    /\ Base \in Contracts
    /\ ~NoDefiner(linearization[Base], last.call.function, {})

\* C13, as stated: the target of a call Base.f is the first contract of Base's
\* linearization that defines f, and the context of the target is Base.
C13_DirectBaseTargetHasBaseContext ==
    \A Base \in Contracts :
        DirectBaseStep(Base) =>
            /\ last.kind = "edge"
            /\ FirstDefiner(last.to.contract, linearization[Base], last.call.function, {})
            /\ last.to.function = last.call.function
            /\ last.to.context = Base

\* C13, amended: the target of a call Base.f is the first contract of Base's
\* linearization that defines f, and the context of the target is the context
\* of the call being expanded.
C13_DirectBaseTargetKeepsContext ==
    \A Base \in Contracts :
        DirectBaseStep(Base) =>
            /\ last.kind = "edge"
            /\ FirstDefiner(last.to.contract, linearization[Base], last.call.function, {})
            /\ last.to.function = last.call.function
            /\ last.to.context = last.callee.context

\* C is B, B is A: the body of B.f, expanded in the context C, calls A.f
C13_Witness ==
    /\ DirectBaseStep("A")
    /\ last.callee = Call("B", f0, "C")
    /\ last.to = Call("A", f0, "C")

\* C14: the entry call names the first contract of the linearization of the
\* requested contract that defines the selected function, so the call list
\* expanded first is that definition's, also when only an ancestor of the
\* requested contract defines the function.
C14_EntryNamesDefiningContract ==
    WalkStarted =>
        /\ FirstDefiner(entry.contract, linearization[entry.context], entry.function, {})
        /\ HasBody(entry)

\* C15: a call through a state variable whose declared type is a contract of
\* the registry targets that contract and the called function, and the
\* context of the target is the nearest contract, in the linearization of the
\* contract defining the expanded body, that declares the variable.
C15_ExternalTargetIsDeclaredType ==
    \A owner \in Contracts :
        (ExternalStep(owner) /\ ReceiverType(owner) \in Contracts) =>
            /\ last.kind = "edge"
            /\ last.to.contract = ReceiverType(owner)
            /\ last.to.function = last.call.function
            /\ last.to.context = owner

\* B is A and A declares `B v`: the body of A.f, expanded in the context B,
\* calls v.f; the target is B.f in the context A
C15_Witness ==
    /\ ExternalStep("A")
    /\ ReceiverType("A") = "B"
    /\ last.callee = Call("A", f0, "B")
    /\ last.to = Call("B", f0, "A")

\* the raw call about to be resolved is an internal or super call to a
\* function that no contract of the searched linearization defines, or names
\* a receiver that is no base and no state variable of any contract of the
\* linearization
Unresolvable ==
    /\ InBody
    /\ LET callee == CurCallee
           call == CurCall
           lin == linearization[callee.contract]
       IN \/ /\ call.contract = "this"
             /\ NoDefiner(linearization[callee.context], call.function, {})
          \/ /\ call.contract = "super"
             /\ NoDefiner(lin, call.function, {callee.contract})
          \/ /\ call.contract \notin {"this", "super"}
             /\ ~InList(call.contract, lin)
             /\ \A k \in 1..Len(lin) :
                   lin[k] \in Contracts => call.contract \notin DOMAIN state_user_vars[lin[k]]

\* C16: the step of walk_call on a raw call that cannot be resolved leaves the
\* edges, the nodes and the worklist as they are and goes on with the next
\* raw call of the same body (with the next worklist entry after the last
\* raw call of the body).
C16_UnresolvedCallIsSkipped ==
    [][Unresolvable =>
          /\ edges' = edges
          /\ nodes' = nodes
          /\ calls' = calls
          /\ pc' = "walk"
          /\ IF ki < Len(CurBody) THEN ci' = ci /\ ki' = ki + 1
             ELSE ci' = ci + 1 /\ ki' = 0]_vars

\* the first raw call of a body, through a receiver that is no base and no
\* state variable, was skipped and the second raw call of the body is next
C16_Witness ==
    /\ InBody
    /\ ki = 2
    /\ last.kind = "drop"
    /\ last.callee = CurCallee
    /\ last.call = CurBody[1]
    /\ last.call.contract \notin {"this", "super"}
    /\ edges = {}
    /\ nodes = {entry}
    /\ calls = <<entry>>

----------------------------------------------------------------------------
(* Properties of the order of the direct bases *)

\* c is declared `c is X1, ..., Xn` with n >= 1 distinct bases that have no
\* bases themselves
PlainBases(c) ==
    /\ declared[c] # <<>>
    /\ NoDuplicates(declared[c])
    /\ \A k \in 1..Len(declared[c]) :
          declared[c][k] \in Contracts => declared[declared[c][k]] = <<>>

\* the base named last among the declared bases of c that are in H
RightMost(c, H) ==
    declared[c][CHOOSE k \in 1..Len(declared[c]) :
                    /\ declared[c][k] \in H
                    /\ \A j \in (k + 1)..Len(declared[c]) : declared[c][j] \notin H]

\* C17: for a contract declared `C is X1, ..., Xn` with distinct base-less
\* bases, the stored bases are Xn, ..., X1, the linearization is
\* [C, Xn, ..., X1], and the first match of a lookup over it is the base
\* declared right-most among those that match.
C17_RightMostBaseFirst ==
    Constructed =>
        \A c \in Contracts :
            PlainBases(c) =>
                LET n == Len(declared[c])
                IN /\ Len(base_contracts[c]) = n
                   /\ \A k \in 1..n : base_contracts[c][k] = declared[c][n + 1 - k]
                   /\ linearization[c] = <<c>> \o [k \in 1..n |-> declared[c][n + 1 - k]]
                   /\ \A H \in SUBSET (Range(declared[c]) \cap Contracts) :
                         H # {} => find_base(c, H) = RightMost(c, H)

\* `A is B, C, D` with base-less B, C and D: the linearization is [A, D, C, B]
C17_Witness ==
    /\ Constructed
    /\ declared["A"] = <<"B", "C", "D">>
    /\ PlainBases("A")
    /\ linearization["A"] = <<"A", "D", "C", "B">>
    /\ find_base("A", {"B", "C"}) = "C"

----------------------------------------------------------------------------
(* Properties of the worklist entries *)

\* C18: every call on the worklist, the entry and every resolved target, names
\* a contract of the registry that defines the function of the call, so the
\* call list of a dequeued call that is not ignored is found.
C18_WorklistCallsAreDefined ==
    /\ \A k \in 1..Len(calls) : Defines(calls[k].contract, calls[k].function)
    /\ (AtLoopHead /\ ~IsIgnored(CurCallee)) => HasBody(CurCallee)

\* the step resolves the raw call to a (contract, function) pair that is on
\* the worklist under another context
Rediscovery ==
    /\ InBody
    /\ last'.kind = "edge"
    /\ \E k \in 1..Len(calls) :
          SameCall(calls[k], last'.to) /\ calls[k].context # last'.to.context

\* C19: in every step of walk_call each node is a worklist entry, with the
\* context it was enqueued under, no two nodes name the same (contract,
\* function) pair and the worklist entries stay as they are; a step that
\* finds a pair of the worklist under another context changes neither the
\* worklist nor the nodes, adds at most its edge and goes on in the body.
C19_OneNodePerPair ==
    [][pc = "walk" =>
          /\ \A n \in nodes' : \E k \in 1..Len(calls') : calls'[k] = n
          /\ \A n, m \in nodes' : SameCall(n, m) => n = m
          /\ \A k \in 1..Len(calls) : calls'[k] = calls[k]
          /\ Rediscovery =>
                /\ calls' = calls
                /\ nodes' = nodes
                /\ edges \subseteq edges'
                /\ edges' \subseteq edges \cup {Edge(CurCallee, last'.to)}
                /\ ci' \in {ci, ci + 1}]_vars

\* the last step found, under another context, a pair that is a node already
\* and added an edge to it
C19_Witness ==
    /\ last.kind = "edge"
    /\ \E k \in 1..Len(calls) :
          /\ SameCall(calls[k], last.to)
          /\ calls[k].context # last.to.context
          /\ calls[k] \in nodes
          /\ \E e \in edges : e.caller = last.callee /\ e.callee = last.to

====
